---- MODULE Spec2Model ----
(***************************************************************************)
(* Model of src/Laboral/agent.py: the in-memory case store CASE_DB, the    *)
(* ten tool functions that read and mutate it, and the narrative           *)
(* classifier (_normalize, corresponde_a_laboral, route_operativa).        *)
(*                                                                         *)
(* Text is a sequence of strings.  Identifiers and narratives are          *)
(* sequences of one-character strings, so that upper(), lower(), strip(),  *)
(* re.sub and the substring test `k in t` are computed character by        *)
(* character.  Fixed literals of the source that are only ever copied or   *)
(* concatenated (flag messages, routing labels, document names, the        *)
(* literal parts of the expediente) are kept as single strings, and        *)
(* concatenation is concatenation of sequences.  The em dash of the        *)
(* routing labels and the two emoji of the expediente lie outside the      *)
(* character set of the parser and are written "--", "[x]" and "[ ]".      *)
(***************************************************************************)
EXTENDS Naturals, Sequences, FiniteSets, TLC

VARIABLES
    CASE_DB,        \* agent.py:101  dict cid -> CaseRecord
    prev,           \* CASE_DB as it was when the last tool call started
    call,           \* the last tool call: its name and arguments
    result,         \* the dict the last tool call returned
    ncalls,         \* number of tool calls issued so far
    texto,          \* input of the classifier (SpecClassifier)
    clasificacion   \* outputs of the classifier (SpecClassifier)

vars == <<CASE_DB, prev, call, result, ncalls, texto, clasificacion>>

-----------------------------------------------------------------------------
(* Bounds of the exploration.                                              *)

\* longest sequence of tool calls explored
MaxCalls == 4

\* longest narrative given to the classifier, in fragments
MaxFragments == 4

-----------------------------------------------------------------------------
(* Python values.                                                          *)

\* None: a value that is no text (every character is a one-character string)
None == <<"<None>">>

\* bool(x) of an Optional[str]: None and "" are falsy
Truthy(x) == x # None /\ x # <<>>

\* `x or default`
Or(x, default) == IF Truthy(x) THEN x ELSE default

LowerLetters ==
    << "a", "b", "c", "d", "e", "f", "g", "h", "i", "j", "k", "l", "m",
       "n", "o", "p", "q", "r", "s", "t", "u", "v", "w", "x", "y", "z",
       "á", "é", "í", "ó", "ú", "ñ" >>

UpperLetters ==
    << "A", "B", "C", "D", "E", "F", "G", "H", "I", "J", "K", "L", "M",
       "N", "O", "P", "Q", "R", "S", "T", "U", "V", "W", "X", "Y", "Z",
       "Á", "É", "Í", "Ó", "Ú", "Ñ" >>

\* the lower-case letter of each upper-case letter, and the converse
ToLower ==
    [c \in {UpperLetters[i] : i \in 1..Len(UpperLetters)} |->
        LowerLetters[CHOOSE i \in 1..Len(UpperLetters) : UpperLetters[i] = c]]

ToUpper ==
    [c \in {LowerLetters[i] : i \in 1..Len(LowerLetters)} |->
        UpperLetters[CHOOSE i \in 1..Len(LowerLetters) : LowerLetters[i] = c]]

\* str.upper()
upper(s) == [i \in 1..Len(s) |-> IF s[i] \in DOMAIN ToUpper THEN ToUpper[s[i]] ELSE s[i]]

\* str.lower()
lower(s) == [i \in 1..Len(s) |-> IF s[i] \in DOMAIN ToLower THEN ToLower[s[i]] ELSE s[i]]

\* the characters \s matches and str.strip() removes
Whitespace == {" ", "\t", "\n", "\r", "\f"}

\* the first and the last position of s that hold no whitespace
FirstSolid(s) ==
    CHOOSE i \in 1..Len(s) :
        s[i] \notin Whitespace /\ \A j \in 1..(i - 1) : s[j] \in Whitespace

LastSolid(s) ==
    CHOOSE i \in 1..Len(s) :
        s[i] \notin Whitespace /\ \A j \in (i + 1)..Len(s) : s[j] \in Whitespace

\* str.strip(): s without its leading and trailing whitespace
strip(s) ==
    IF \A i \in 1..Len(s) : s[i] \in Whitespace THEN <<>>
    ELSE SubSeq(s, FirstSolid(s), LastSolid(s))

\* re.sub(r"\s+", " ", s): every maximal run of whitespace becomes one space
\* (the first character of a run becomes the space, the others are dropped)
collapse(s) ==
    LET marked == [i \in 1..Len(s) |->
                      IF s[i] \notin Whitespace THEN s[i]
                      ELSE IF i > 1 /\ s[i - 1] \in Whitespace THEN ""
                      ELSE " "]
        Kept(c) == c # ""
    IN  SelectSeq(marked, Kept)

\* `k in t` for two strings
Contains(t, k) ==
    \/ k = <<>>
    \/ \E i \in 1..Len(t) :
          /\ t[i] = k[1]
          /\ i + Len(k) - 1 <= Len(t)
          /\ SubSeq(t, i, i + Len(k) - 1) = k

-----------------------------------------------------------------------------
(* Fixed data of the module.                                               *)

LAB_0001 == <<"L", "A", "B", "-", "0", "0", "0", "1">>

LAB_0002 == <<"L", "A", "B", "-", "0", "0", "0", "2">>

RELATO_LAB_0001 == 
    <<
       "T", "r", "a", "b", "a", "j", "é", " ", "c", "o", "m", "o", " ", "a", "u", "x",
       "i", "l", "i", "a", "r", " ", "d", "e", " ", "b", "o", "d", "e", "g", "a", ".",
       " ", "M", "e", " ", "p", "a", "g", "a", "b", "a", "n", " ", "s", "e", "m", "a",
       "n", "a", "l", "m", "e", "n", "t", "e", ".", " ", "E", "l", " ", "e", "m", "p",
       "l", "e", "a", "d", "o", "r", " ", "m", "e", " ", "d", "i", "j", "o", " ", "q",
       "u", "e", " ", "y", "a", " ", "n", "o", " ", "l", "l", "e", "g", "a", "r", "a",
       " ", "y", " ", "n", "o", " ", "m", "e", " ", "e", "n", "t", "r", "e", "g", "ó",
       " ", "c", "a", "r", "t", "a", " ", "d", "e", " ", "d", "e", "s", "p", "i", "d",
       "o", ".", " ", "Q", "u", "e", "d", "ó", " ", "p", "e", "n", "d", "i", "e", "n",
       "t", "e", " ", "e", "l", " ", "p", "a", "g", "o", " ", "d", "e", " ", "l", "a",
       " ", "ú", "l", "t", "i", "m", "a", " ", "s", "e", "m", "a", "n", "a", "." >>

RELATO_LAB_0002 == 
    <<
       "T", "u", "v", "e", " ", "u", "n", " ", "a", "c", "c", "i", "d", "e", "n", "t",
       "e", " ", "e", "n", " ", "e", "l", " ", "t", "r", "a", "b", "a", "j", "o", " ",
       "y", " ", "m", "e", " ", "d", "i", "e", "r", "o", "n", " ", "i", "n", "c", "a",
       "p", "a", "c", "i", "d", "a", "d", ".", " ", "E", "l", " ", "e", "m", "p", "l",
       "e", "a", "d", "o", "r", " ", "n", "o", " ", "q", "u", "i", "s", "o", " ", "r",
       "e", "c", "o", "n", "o", "c", "e", "r", " ", "e", "l", " ", "i", "n", "c", "i",
       "d", "e", "n", "t", "e", " ", "y", " ", "m", "e", " ", "p", "r", "e", "s", "i",
       "o", "n", "ó", " ", "p", "a", "r", "a", " ", "r", "e", "n", "u", "n", "c", "i",
       "a", "r", "." >>

HARDCODED_GENERAL_CASES ==
    [k \in {LAB_0001, LAB_0002} |->
        IF k = LAB_0001 THEN [relato |-> RELATO_LAB_0001]
                        ELSE [relato |-> RELATO_LAB_0002]]

CaseState ==
    { "RECEIVED", "DETAILS_CAPTURED", "DOCS_REQUESTED", "DOCS_RECEIVED",
      "VALIDATED", "PRE_CLASSIFIED", "EXPEDIENTE_GENERATED", "HANDOFF_TO_HUMAN" }

DOCUMENTOS_BASE ==
    << "Contrato (si existe)",
       "Constancia salarial / colillas / transferencias",
       "Carta de despido (si existe)",
       "Afiliación AFP/ISSS (si aplica)",
       "Comprobantes de pago",
       "Planillas / boletas / transferencias",
       "Comunicación con empleador (WhatsApp/email) si existe",
       "Constancia médica (si aplica)",
       "Incapacidad (si existe)",
       "Reportes (si existen)" >>

LABORAL_KEYWORDS ==
    << <<"e", "m", "p", "l", "e", "a", "d", "o", "r">>,
       <<"s", "a", "l", "a", "r", "i", "o">>,
       <<"p", "a", "g", "o">>,
       <<"d", "e", "s", "p", "i", "d", "o">>,
       <<"j", "o", "r", "n", "a", "d", "a">>,
       <<"p", "r", "e", "s", "t", "a", "c", "i", "o", "n", "e", "s">>,
       <<"c", "o", "n", "t", "r", "a", "t", "o">>,
       <<"t", "r", "a", "b", "a", "j">>,
       <<"i", "n", "c", "a", "p", "a", "c", "i", "d", "a", "d">>,
       <<"a", "c", "c", "i", "d", "e", "n", "t", "e">> >>

PENAL_SIGNALS ==
    << <<"a", "m", "e", "n", "a", "z", "a", " ", "d", "e", " ", "m", "u", "e", "r", "t", "e">>,
       <<"a", "r", "m", "a">>,
       <<"s", "e", "c", "u", "e", "s", "t", "r", "o">>,
       <<"e", "x", "t", "o", "r", "s", "i", "ó", "n">>,
       <<"a", "g", "r", "e", "s", "i", "ó", "n", " ", "s", "e", "x", "u", "a", "l">> >>

RUTA_PENAL == "PENAL (probable) -- derivación sugerida, revisión humana obligatoria"

RUTA_LABORAL == "LABORAL (probable) -- pre-clasificación operativa, revisión humana final"

RUTA_REVISAR == "REVISAR (humano) -- información insuficiente para ruta operativa"

-----------------------------------------------------------------------------
(* The narrative classifier.                                               *)

\* any(s in t for s in words)
AnyIn(words, t) == \E i \in 1..Len(words) : Contains(t, words[i])

_normalize(text) == collapse(lower(strip(Or(text, <<>>))))

\* route_operativa with the two tests in the other order
route_operativa_labor_first(relato_total) ==
    LET t == _normalize(relato_total)
    IN  IF AnyIn(LABORAL_KEYWORDS, t) THEN <<RUTA_LABORAL>>
        ELSE IF AnyIn(PENAL_SIGNALS, t) THEN <<RUTA_PENAL>>
        ELSE <<RUTA_REVISAR>>

corresponde_a_laboral(relato_total) ==
    LET t == _normalize(relato_total)
    IN  IF AnyIn(PENAL_SIGNALS, t) THEN FALSE ELSE AnyIn(LABORAL_KEYWORDS, t)

route_operativa(relato_total) ==
    LET t == _normalize(relato_total)
    IN  IF AnyIn(PENAL_SIGNALS, t) THEN <<RUTA_PENAL>>
        ELSE IF AnyIn(LABORAL_KEYWORDS, t) THEN <<RUTA_LABORAL>>
        ELSE <<RUTA_REVISAR>>

-----------------------------------------------------------------------------
(* The records.                                                            *)

\* an empty dict
EmptyDict == [k \in {} |-> k]

\* d[k] = v
Put(d, k, v) == [x \in DOMAIN d \cup {k} |-> IF x = k THEN v ELSE d[x]]

\* dataclass DocumentChecklistItem
DocumentChecklistItem(doc, requerido, recibido, nota) ==
    [doc |-> doc, requerido |-> requerido, recibido |-> recibido, nota |-> nota]

\* dataclass CaseData with every field at its default
CaseData ==
    [ nombre |-> None, dui |-> None, contacto |-> None,
      empleador_nombre |-> None, cargo |-> None,
      salario_monto |-> None, salario_periodicidad |-> None,
      fecha_inicio |-> None, fecha_despido_ultimo_pago |-> None,
      relato |-> None, relato_extra |-> None,
      pretension |-> None,
      jurisdiccion_probable |-> None,
      banderas |-> <<>> ]

\* datetime.utcnow().isoformat() + "Z".  The clock is not modelled: the two
\* timestamps are written when a record is constructed and no tool reads or
\* writes them afterwards, so every record carries the same instant.
utcnow == "utcnow"

\* CaseRecord(case_id=cid)
CaseRecord(cid) ==
    [ case_id |-> cid, state |-> "RECEIVED",
      created_at |-> utcnow, updated_at |-> utcnow,
      data |-> CaseData, checklist |-> EmptyDict, expediente |-> None ]

\* the result of every tool whose record is absent
NotFound == [status |-> "error", error_message |-> "case_id no encontrado."]

\* (d.relato or "") + ("\n" + d.relato_extra if d.relato_extra else "")
RelatoTotal(d) ==
    Or(d.relato, <<>>)
        \o (IF Truthy(d.relato_extra) THEN <<"\n">> \o d.relato_extra ELSE <<>>)

-----------------------------------------------------------------------------
(* The tools.  Each is a function of the store and its arguments that      *)
(* gives the store after the call and the dict returned.                   *)

\* create_case that stores a new record whether or not one exists
create_case_reset(db, case_id) ==
    LET cid == upper(Or(case_id, LAB_0001))
        db1 == Put(db, cid, CaseRecord(cid))
    IN  [ db |-> db1,
          result |-> [status |-> "ok", case_id |-> cid, state |-> db1[cid].state] ]

create_case(db, case_id) ==
    LET cid == upper(Or(case_id, LAB_0001))
        db1 == IF cid \notin DOMAIN db THEN Put(db, cid, CaseRecord(cid)) ELSE db
    IN  [ db |-> db1,
          result |-> [status |-> "ok", case_id |-> cid, state |-> db1[cid].state] ]

\* capture_identity that uses the identifier as it is given
capture_identity_raw_key(db, case_id, dui, nombre, contacto) ==
    LET cid == case_id
        db1 == IF cid \notin DOMAIN db THEN Put(db, cid, CaseRecord(cid)) ELSE db
        c   == [db1[cid] EXCEPT !.data.dui = dui,
                                !.data.nombre = nombre,
                                !.data.contacto = contacto,
                                !.state = "DETAILS_CAPTURED"]
    IN  [ db |-> Put(db1, cid, c),
          result |-> [status |-> "ok", case_id |-> cid, state |-> c.state] ]

\* capture_identity that needs the record to exist
capture_identity_strict(db, case_id, dui, nombre, contacto) ==
    LET cid == upper(case_id)
    IN  IF cid \notin DOMAIN db
        THEN [db |-> db, result |-> NotFound]
        ELSE LET c == [db[cid] EXCEPT !.data.dui = dui,
                                      !.data.nombre = nombre,
                                      !.data.contacto = contacto,
                                      !.state = "DETAILS_CAPTURED"]
             IN  [ db |-> Put(db, cid, c),
                   result |-> [status |-> "ok", case_id |-> cid, state |-> c.state] ]

capture_identity(db, case_id, dui, nombre, contacto) ==
    LET cid == upper(case_id)
        db1 == IF cid \notin DOMAIN db THEN Put(db, cid, CaseRecord(cid)) ELSE db
        c   == [db1[cid] EXCEPT !.data.dui = dui,
                                !.data.nombre = nombre,
                                !.data.contacto = contacto,
                                !.state = "DETAILS_CAPTURED"]
    IN  [ db |-> Put(db1, cid, c),
          result |-> [status |-> "ok", case_id |-> cid, state |-> c.state] ]

\* pull_story_from_general that stores the narrative as the complement
pull_story_from_general_as_extra(db, case_id) ==
    LET cid == upper(case_id)
        db1 == IF cid \notin DOMAIN db THEN Put(db, cid, CaseRecord(cid)) ELSE db
    IN  IF cid \notin DOMAIN HARDCODED_GENERAL_CASES
        THEN [ db |-> db1,
               result |-> [ status |-> "error",
                            error_message |-> "No hay relato quemado para ese case_id (usa LAB-0001 o LAB-0002)." ] ]
        ELSE LET c == [db1[cid] EXCEPT !.data.relato_extra = HARDCODED_GENERAL_CASES[cid].relato,
                                       !.state = "DETAILS_CAPTURED"]
             IN  [ db |-> Put(db1, cid, c),
                   result |-> [ status |-> "ok", case_id |-> cid,
                                formato |-> [ nombre_persona |-> Or(c.data.nombre, <<"N/D">>),
                                              dui |-> Or(c.data.dui, <<"N/D">>),
                                              relato |-> c.data.relato_extra ],
                                state |-> c.state ] ]

pull_story_from_general(db, case_id) ==
    LET cid == upper(case_id)
        db1 == IF cid \notin DOMAIN db THEN Put(db, cid, CaseRecord(cid)) ELSE db
    IN  IF cid \notin DOMAIN HARDCODED_GENERAL_CASES
        THEN [ db |-> db1,
               result |-> [ status |-> "error",
                            error_message |-> "No hay relato quemado para ese case_id (usa LAB-0001 o LAB-0002)." ] ]
        ELSE LET c == [db1[cid] EXCEPT !.data.relato = HARDCODED_GENERAL_CASES[cid].relato,
                                       !.state = "DETAILS_CAPTURED"]
             IN  [ db |-> Put(db1, cid, c),
                   result |-> [ status |-> "ok", case_id |-> cid,
                                formato |-> [ nombre_persona |-> Or(c.data.nombre, <<"N/D">>),
                                              dui |-> Or(c.data.dui, <<"N/D">>),
                                              relato |-> c.data.relato ],
                                state |-> c.state ] ]

\* add_more_info that leaves the state of the record as it is
add_more_info_keeps_state(db, case_id, info_adicional) ==
    LET cid == upper(case_id)
    IN  IF cid \notin DOMAIN db
        THEN [db |-> db, result |-> NotFound]
        ELSE LET c == [db[cid] EXCEPT !.data.relato_extra = info_adicional]
             IN  [ db |-> Put(db, cid, c),
                   result |-> [status |-> "ok", case_id |-> cid, state |-> c.state] ]

add_more_info(db, case_id, info_adicional) ==
    LET cid == upper(case_id)
    IN  IF cid \notin DOMAIN db
        THEN [db |-> db, result |-> NotFound]
        ELSE LET c == [db[cid] EXCEPT !.data.relato_extra = info_adicional,
                                      !.state = "DETAILS_CAPTURED"]
             IN  [ db |-> Put(db, cid, c),
                   result |-> [status |-> "ok", case_id |-> cid, state |-> c.state] ]

capture_required_fields(db, case_id, empleador_nombre, cargo, salario_monto, salario_periodicidad, fecha_inicio, fecha_despido_ultimo_pago, pretension) ==
    LET cid == upper(case_id)
    IN  IF cid \notin DOMAIN db
        THEN [db |-> db, result |-> NotFound]
        ELSE LET c == [db[cid] EXCEPT !.data.empleador_nombre = empleador_nombre,
                                      !.data.cargo = cargo,
                                      !.data.salario_monto = salario_monto,
                                      !.data.salario_periodicidad = salario_periodicidad,
                                      !.data.fecha_inicio = fecha_inicio,
                                      !.data.fecha_despido_ultimo_pago = fecha_despido_ultimo_pago,
                                      !.data.pretension = pretension,
                                      !.state = "DETAILS_CAPTURED"]
             IN  [ db |-> Put(db, cid, c),
                   result |-> [status |-> "ok", case_id |-> cid, state |-> c.state] ]

\* {doc: DocumentChecklistItem(doc=doc) for doc in DOCUMENTOS_BASE}
BaseChecklist ==
    [doc \in {DOCUMENTOS_BASE[i] : i \in 1..Len(DOCUMENTOS_BASE)} |->
        DocumentChecklistItem(doc, FALSE, FALSE, None)]

\* request_documents that refuses a record already handed off
request_documents_strict(db, case_id) ==
    LET cid == upper(case_id)
    IN  IF cid \notin DOMAIN db \/ db[cid].state = "HANDOFF_TO_HUMAN"
        THEN [db |-> db, result |-> NotFound]
        ELSE LET c == [db[cid] EXCEPT !.checklist = BaseChecklist,
                                      !.state = "DOCS_REQUESTED"]
             IN  [ db |-> Put(db, cid, c),
                   result |-> [ status |-> "ok", case_id |-> cid,
                                documentos_base |->
                                    [i \in 1..Len(DOCUMENTOS_BASE) |->
                                        [ doc |-> c.checklist[DOCUMENTOS_BASE[i]].doc,
                                          recibido |-> c.checklist[DOCUMENTOS_BASE[i]].recibido ]],
                                state |-> c.state,
                                nota |-> "No son obligatorios, pero se solicitan si existen." ] ]

\* request_documents that keeps the items the checklist already holds
request_documents_merge(db, case_id) ==
    LET cid == upper(case_id)
    IN  IF cid \notin DOMAIN db
        THEN [db |-> db, result |-> NotFound]
        ELSE LET old == db[cid].checklist
                 c == [db[cid] EXCEPT
                          !.checklist = [doc \in DOMAIN BaseChecklist \cup DOMAIN old |->
                                            IF doc \in DOMAIN old THEN old[doc]
                                                                  ELSE BaseChecklist[doc]],
                          !.state = "DOCS_REQUESTED"]
             IN  [ db |-> Put(db, cid, c),
                   result |-> [ status |-> "ok", case_id |-> cid,
                                documentos_base |->
                                    [i \in 1..Len(DOCUMENTOS_BASE) |->
                                        [ doc |-> c.checklist[DOCUMENTOS_BASE[i]].doc,
                                          recibido |-> c.checklist[DOCUMENTOS_BASE[i]].recibido ]],
                                state |-> c.state,
                                nota |-> "No son obligatorios, pero se solicitan si existen." ] ]

request_documents(db, case_id) ==
    LET cid == upper(case_id)
    IN  IF cid \notin DOMAIN db
        THEN [db |-> db, result |-> NotFound]
        ELSE LET c == [db[cid] EXCEPT !.checklist = BaseChecklist,
                                      !.state = "DOCS_REQUESTED"]
             IN  [ db |-> Put(db, cid, c),
                   result |-> [ status |-> "ok", case_id |-> cid,
                                documentos_base |->
                                    [i \in 1..Len(DOCUMENTOS_BASE) |->
                                        [ doc |-> c.checklist[DOCUMENTOS_BASE[i]].doc,
                                          recibido |-> c.checklist[DOCUMENTOS_BASE[i]].recibido ]],
                                state |-> c.state,
                                nota |-> "No son obligatorios, pero se solicitan si existen." ] ]

\* mark_document that does not build the base checklist on demand
mark_document_no_init(db, case_id, doc_name, existe, nota) ==
    LET cid == upper(case_id)
    IN  IF cid \notin DOMAIN db
        THEN [db |-> db, result |-> NotFound]
        ELSE LET chk  == db[cid].checklist
                 item == IF doc_name \in DOMAIN chk
                         THEN chk[doc_name]
                         ELSE DocumentChecklistItem(doc_name, FALSE, FALSE, None)
                 new  == [item EXCEPT !.recibido = existe,
                                      !.nota = IF Truthy(nota) THEN nota ELSE @]
                 c    == [db[cid] EXCEPT !.checklist = Put(chk, doc_name, new),
                                         !.state = "DOCS_RECEIVED"]
             IN  [ db |-> Put(db, cid, c),
                   result |-> [ status |-> "ok", case_id |-> cid, doc |-> doc_name,
                                existe |-> existe, state |-> c.state ] ]

\* mark_document that makes a document required once it is received
mark_document_required(db, case_id, doc_name, existe, nota) ==
    LET cid == upper(case_id)
    IN  IF cid \notin DOMAIN db
        THEN [db |-> db, result |-> NotFound]
        ELSE LET chk  == IF DOMAIN db[cid].checklist = {} THEN BaseChecklist
                                                          ELSE db[cid].checklist
                 item == IF doc_name \in DOMAIN chk
                         THEN chk[doc_name]
                         ELSE DocumentChecklistItem(doc_name, FALSE, FALSE, None)
                 new  == [item EXCEPT !.recibido = existe,
                                      !.requerido = existe,
                                      !.nota = IF Truthy(nota) THEN nota ELSE @]
                 c    == [db[cid] EXCEPT !.checklist = Put(chk, doc_name, new),
                                         !.state = "DOCS_RECEIVED"]
             IN  [ db |-> Put(db, cid, c),
                   result |-> [ status |-> "ok", case_id |-> cid, doc |-> doc_name,
                                existe |-> existe, state |-> c.state ] ]

mark_document(db, case_id, doc_name, existe, nota) ==
    LET cid == upper(case_id)
    IN  IF cid \notin DOMAIN db
        THEN [db |-> db, result |-> NotFound]
        ELSE LET chk  == IF DOMAIN db[cid].checklist = {} THEN BaseChecklist
                                                          ELSE db[cid].checklist
                 item == IF doc_name \in DOMAIN chk
                         THEN chk[doc_name]
                         ELSE DocumentChecklistItem(doc_name, FALSE, FALSE, None)
                 new  == [item EXCEPT !.recibido = existe,
                                      !.nota = IF Truthy(nota) THEN nota ELSE @]
                 c    == [db[cid] EXCEPT !.checklist = Put(chk, doc_name, new),
                                         !.state = "DOCS_RECEIVED"]
             IN  [ db |-> Put(db, cid, c),
                   result |-> [ status |-> "ok", case_id |-> cid, doc |-> doc_name,
                                existe |-> existe, state |-> c.state ] ]

\* the sequence s, followed by x when b holds
AppendIf(s, b, x) == IF b THEN Append(s, x) ELSE s

\* Flags with one flag for the wage amount and one for the wage period
Flags_split_wage(d) ==
    LET f1  == AppendIf(<<>>, ~Truthy(d.nombre), "Falta nombre.")
        f2  == AppendIf(f1, ~Truthy(d.dui), "Falta DUI.")
        f3  == AppendIf(f2, ~Truthy(d.contacto), "Falta contacto.")
        f4  == AppendIf(f3, ~Truthy(d.empleador_nombre), "Falta empleador (nombre).")
        f5  == AppendIf(f4, ~Truthy(d.cargo), "Falta cargo.")
        f6a == AppendIf(f5, ~Truthy(d.salario_monto), "Falta salario (monto).")
        f6  == AppendIf(f6a, ~Truthy(d.salario_periodicidad), "Falta salario (periodicidad).")
        f7  == AppendIf(f6, ~Truthy(d.fecha_inicio), "Falta fecha inicio relación.")
        f8  == AppendIf(f7, ~Truthy(d.fecha_despido_ultimo_pago),
                        "Falta fecha despido/último pago.")
        f9  == AppendIf(f8, ~Truthy(d.relato), "Falta relato base (del agente general).")
        f10 == AppendIf(f9, ~Truthy(d.pretension), "Falta pretensión.")
    IN  AppendIf(f10, AnyIn(PENAL_SIGNALS, _normalize(RelatoTotal(d))),
                 "Señales de posible materia penal (solo derivación sugerida).")

\* Flags that reports the first missing field only
Flags_short_circuit(d) ==
    LET first ==
            IF ~Truthy(d.nombre) THEN <<"Falta nombre.">>
            ELSE IF ~Truthy(d.dui) THEN <<"Falta DUI.">>
            ELSE IF ~Truthy(d.contacto) THEN <<"Falta contacto.">>
            ELSE IF ~Truthy(d.empleador_nombre) THEN <<"Falta empleador (nombre).">>
            ELSE IF ~Truthy(d.cargo) THEN <<"Falta cargo.">>
            ELSE IF ~Truthy(d.salario_monto) \/ ~Truthy(d.salario_periodicidad)
                 THEN <<"Falta salario (monto/periodicidad).">>
            ELSE IF ~Truthy(d.fecha_inicio) THEN <<"Falta fecha inicio relación.">>
            ELSE IF ~Truthy(d.fecha_despido_ultimo_pago)
                 THEN <<"Falta fecha despido/último pago.">>
            ELSE IF ~Truthy(d.relato) THEN <<"Falta relato base (del agente general).">>
            ELSE IF ~Truthy(d.pretension) THEN <<"Falta pretensión.">>
            ELSE <<>>
    IN  AppendIf(first, AnyIn(PENAL_SIGNALS, _normalize(RelatoTotal(d))),
                 "Señales de posible materia penal (solo derivación sugerida).")

\* the flags validate_and_recheck collects for the data d, in its order
Flags(d) ==
    LET f1  == AppendIf(<<>>, ~Truthy(d.nombre), "Falta nombre.")
        f2  == AppendIf(f1, ~Truthy(d.dui), "Falta DUI.")
        f3  == AppendIf(f2, ~Truthy(d.contacto), "Falta contacto.")
        f4  == AppendIf(f3, ~Truthy(d.empleador_nombre), "Falta empleador (nombre).")
        f5  == AppendIf(f4, ~Truthy(d.cargo), "Falta cargo.")
        f6  == AppendIf(f5, ~Truthy(d.salario_monto) \/ ~Truthy(d.salario_periodicidad),
                        "Falta salario (monto/periodicidad).")
        f7  == AppendIf(f6, ~Truthy(d.fecha_inicio), "Falta fecha inicio relación.")
        f8  == AppendIf(f7, ~Truthy(d.fecha_despido_ultimo_pago),
                        "Falta fecha despido/último pago.")
        f9  == AppendIf(f8, ~Truthy(d.relato), "Falta relato base (del agente general).")
        f10 == AppendIf(f9, ~Truthy(d.pretension), "Falta pretensión.")
    IN  AppendIf(f10, AnyIn(PENAL_SIGNALS, _normalize(RelatoTotal(d))),
                 "Señales de posible materia penal (solo derivación sugerida).")

\* validate_and_recheck that appends the new flags to the stored ones
validate_and_recheck_accumulate(db, case_id) ==
    LET cid == upper(case_id)
    IN  IF cid \notin DOMAIN db
        THEN [db |-> db, result |-> NotFound]
        ELSE LET d            == db[cid].data
                 relato_total == RelatoTotal(d)
                 flags        == d.banderas \o Flags(d)
                 c1 == [db[cid] EXCEPT !.data.banderas = flags, !.state = "VALIDATED"]
                 is_laboral   == corresponde_a_laboral(relato_total)
                 c  == [c1 EXCEPT !.data.jurisdiccion_probable = route_operativa(relato_total),
                                  !.state = "PRE_CLASSIFIED"]
             IN  [ db |-> Put(db, cid, c),
                   result |-> [ status |-> "ok", case_id |-> cid, flags |-> flags,
                                jurisdiccion_probable |-> c.data.jurisdiccion_probable,
                                corresponde_a_laboral_probable |-> is_laboral,
                                state |-> c.state ] ]

\* validate_and_recheck that stops at VALIDATED
validate_and_recheck_no_preclassify(db, case_id) ==
    LET cid == upper(case_id)
    IN  IF cid \notin DOMAIN db
        THEN [db |-> db, result |-> NotFound]
        ELSE LET d            == db[cid].data
                 relato_total == RelatoTotal(d)
                 flags        == Flags(d)
                 c1 == [db[cid] EXCEPT !.data.banderas = flags, !.state = "VALIDATED"]
                 is_laboral   == corresponde_a_laboral(relato_total)
                 c  == [c1 EXCEPT !.data.jurisdiccion_probable = route_operativa(relato_total)]
             IN  [ db |-> Put(db, cid, c),
                   result |-> [ status |-> "ok", case_id |-> cid, flags |-> flags,
                                jurisdiccion_probable |-> c.data.jurisdiccion_probable,
                                corresponde_a_laboral_probable |-> is_laboral,
                                state |-> c.state ] ]

validate_and_recheck(db, case_id) ==
    LET cid == upper(case_id)
    IN  IF cid \notin DOMAIN db
        THEN [db |-> db, result |-> NotFound]
        ELSE LET d            == db[cid].data
                 relato_total == RelatoTotal(d)
                 flags        == Flags(d)
                 c1 == [db[cid] EXCEPT !.data.banderas = flags, !.state = "VALIDATED"]
                 is_laboral   == corresponde_a_laboral(relato_total)
                 c  == [c1 EXCEPT !.data.jurisdiccion_probable = route_operativa(relato_total),
                                  !.state = "PRE_CLASSIFIED"]
             IN  [ db |-> Put(db, cid, c),
                   result |-> [ status |-> "ok", case_id |-> cid, flags |-> flags,
                                jurisdiccion_probable |-> c.data.jurisdiccion_probable,
                                corresponde_a_laboral_probable |-> is_laboral,
                                state |-> c.state ] ]

\* "\n".join(lines)
RECURSIVE Join(_)
Join(lines) ==
    IF lines = <<>> THEN <<>>
    ELSE IF Len(lines) = 1 THEN lines[1]
    ELSE lines[1] \o <<"\n">> \o Join(Tail(lines))

\* DocLine that drops the note once an expediente is stored on the record
DocLine_first_time(c, i) ==
    LET doc  == DOCUMENTOS_BASE[i]
        has  == DOMAIN c.checklist # {} /\ doc \in DOMAIN c.checklist
        ok   == IF has THEN c.checklist[doc].recibido ELSE FALSE
        note == IF has /\ Truthy(c.checklist[doc].nota) /\ c.expediente = None
                THEN <<" (">> \o c.checklist[doc].nota \o <<")">>
                ELSE <<>>
    IN  <<"- ", IF ok THEN "[x]" ELSE "[ ]", " ", doc>> \o note

\* the line of the expediente for the i-th base document
DocLine(c, i) ==
    LET doc  == DOCUMENTOS_BASE[i]
        has  == DOMAIN c.checklist # {} /\ doc \in DOMAIN c.checklist
        ok   == IF has THEN c.checklist[doc].recibido ELSE FALSE
        note == IF has /\ Truthy(c.checklist[doc].nota)
                THEN <<" (">> \o c.checklist[doc].nota \o <<")">>
                ELSE <<>>
    IN  <<"- ", IF ok THEN "[x]" ELSE "[ ]", " ", doc>> \o note

\* the text generate_expediente renders for the record c stored under cid
Expediente(cid, c) ==
    LET d == c.data
    IN  Join(
          << <<"=== EXPEDIENTE (BORRADOR OPERATIVO) ===">>,
             <<"Case ID: ">> \o cid,
             <<>>,
             <<"Formato solicitado:">>,
             <<"Nombre persona: ">> \o Or(d.nombre, <<"N/D">>),
             <<"DUI: ">> \o Or(d.dui, <<"N/D">>),
             <<"Relato de los hechos:">>,
             Or(RelatoTotal(d), <<"N/D">>),
             <<>>,
             <<"Obligatorios capturados (digitados por operador):">>,
             <<"- Contacto: ">> \o Or(d.contacto, <<"N/D">>),
             <<"- Empleador: ">> \o Or(d.empleador_nombre, <<"N/D">>),
             <<"- Cargo: ">> \o Or(d.cargo, <<"N/D">>),
             <<"- Salario: ">> \o Or(d.salario_monto, <<"N/D">>) \o <<" (">>
                 \o Or(d.salario_periodicidad, <<"N/D">>) \o <<")">>,
             <<"- Fechas: inicio=">> \o Or(d.fecha_inicio, <<"N/D">>)
                 \o <<" | despido/último pago=">>
                 \o Or(d.fecha_despido_ultimo_pago, <<"N/D">>),
             <<"- Pretensión: ">> \o Or(d.pretension, <<"N/D">>),
             <<>>,
             <<"Documentos base (si existen):">> >>
          \o [i \in 1..Len(DOCUMENTOS_BASE) |-> DocLine(c, i)]
          \o << <<>>,
                <<"Pre-clasificación operativa (NO dictamen):">>,
                <<"- Ruta/Jurisdicción probable: ">> \o Or(d.jurisdiccion_probable, <<"N/D">>),
                <<>>,
                <<"Banderas / faltantes:">> >>
          \o (IF d.banderas = <<>> THEN << <<"- (Sin banderas)">> >>
              ELSE [i \in 1..Len(d.banderas) |-> <<"- ", d.banderas[i]>>])
          \o << <<>>,
                <<"Nota: revisión humana final obligatoria.">> >> )

\* generate_expediente that reports the identifier as it was given
generate_expediente_raw_id(db, case_id) ==
    LET cid == upper(case_id)
    IN  IF cid \notin DOMAIN db
        THEN [db |-> db, result |-> NotFound]
        ELSE LET expediente == Expediente(cid, db[cid])
                 c == [db[cid] EXCEPT !.expediente = expediente,
                                      !.state = "EXPEDIENTE_GENERATED"]
             IN  [ db |-> Put(db, cid, c),
                   result |-> [ status |-> "ok", case_id |-> case_id,
                                expediente |-> expediente, state |-> c.state ] ]

\* generate_expediente that recomputes the flags before it renders them
generate_expediente_recheck(db, case_id) ==
    LET cid == upper(case_id)
    IN  IF cid \notin DOMAIN db
        THEN [db |-> db, result |-> NotFound]
        ELSE LET c0 == [db[cid] EXCEPT !.data.banderas = Flags(db[cid].data)]
                 expediente == Expediente(cid, c0)
                 c == [c0 EXCEPT !.expediente = expediente,
                                 !.state = "EXPEDIENTE_GENERATED"]
             IN  [ db |-> Put(db, cid, c),
                   result |-> [ status |-> "ok", case_id |-> cid,
                                expediente |-> expediente, state |-> c.state ] ]

generate_expediente(db, case_id) ==
    LET cid == upper(case_id)
    IN  IF cid \notin DOMAIN db
        THEN [db |-> db, result |-> NotFound]
        ELSE LET expediente == Expediente(cid, db[cid])
                 c == [db[cid] EXCEPT !.expediente = expediente,
                                      !.state = "EXPEDIENTE_GENERATED"]
             IN  [ db |-> Put(db, cid, c),
                   result |-> [ status |-> "ok", case_id |-> cid,
                                expediente |-> expediente, state |-> c.state ] ]

\* handoff_to_human that opens a record when there is none
handoff_to_human_creates(db, case_id, nota) ==
    LET cid == upper(case_id)
        db1 == IF cid \notin DOMAIN db THEN Put(db, cid, CaseRecord(cid)) ELSE db
        c   == [db1[cid] EXCEPT !.state = "HANDOFF_TO_HUMAN"]
    IN  [ db |-> Put(db1, cid, c),
          result |-> [ status |-> "ok", case_id |-> cid, state |-> c.state,
                       nota |-> Or(nota, <<>>) ] ]

\* handoff_to_human that takes the record out of the store
handoff_to_human_closes(db, case_id, nota) ==
    LET cid == upper(case_id)
    IN  IF cid \notin DOMAIN db
        THEN [db |-> db, result |-> NotFound]
        ELSE [ db |-> [k \in DOMAIN db \ {cid} |-> db[k]],
               result |-> [ status |-> "ok", case_id |-> cid,
                            state |-> "HANDOFF_TO_HUMAN", nota |-> Or(nota, <<>>) ] ]

handoff_to_human(db, case_id, nota) ==
    LET cid == upper(case_id)
    IN  IF cid \notin DOMAIN db
        THEN [db |-> db, result |-> NotFound]
        ELSE LET c == [db[cid] EXCEPT !.state = "HANDOFF_TO_HUMAN"]
             IN  [ db |-> Put(db, cid, c),
                   result |-> [ status |-> "ok", case_id |-> cid, state |-> c.state,
                                nota |-> Or(nota, <<>>) ] ]

-----------------------------------------------------------------------------
(* The arguments the caller passes.                                        *)

\* identifiers as the operator types them
CaseIds ==
    { <<"l", "a", "b", "-", "0", "0", "0", "1">>,
      <<"L", "a", "b", "-", "9", "9", "9", "9">> }

\* values of a captured field: left empty, or filled in
TextInputs == { <<>>, <<"A", "n", "a">> }

\* complements of the narrative
InfoInputs ==
    { <<>>,
      <<"T", "e", "n", "í", "a", " ", "u", "n", " ", "A", "R", "M", "A">> }

\* a note
Ok == <<"o", "k">>

\* notes of handoff_to_human
NotaInputs == { None, Ok }

\* arguments of mark_document: a document of the base list or one that is
\* not in it, received or not, with a note or without; four calls in which
\* every two of the three choices meet in all four ways
MarkInputs ==
    { [doc_name |-> DOCUMENTOS_BASE[1], existe |-> TRUE,  nota |-> None],
      [doc_name |-> DOCUMENTOS_BASE[1], existe |-> FALSE, nota |-> Ok],
      [doc_name |-> "Otro documento",   existe |-> TRUE,  nota |-> Ok],
      [doc_name |-> "Otro documento",   existe |-> FALSE, nota |-> <<>>] }

-----------------------------------------------------------------------------
(* One action for each tool the agent registers (agent.py:452-462).        *)

\* the caller issues the call c, which gives r
Call(c, r) ==
    /\ ncalls < MaxCalls
    /\ prev' = CASE_DB
    /\ CASE_DB' = r.db
    /\ result' = r.result
    /\ call' = c
    /\ ncalls' = ncalls + 1
    /\ UNCHANGED <<texto, clasificacion>>

CreateCase ==
    \E id \in CaseIds \cup {None} :
        Call([op |-> "create_case", case_id |-> id],
             create_case(CASE_DB, id))

\* the three fields are all left empty or all filled in
CaptureIdentity ==
    \E id \in CaseIds, v \in TextInputs :
        Call([op |-> "capture_identity", case_id |-> id, dui |-> v,
              nombre |-> v, contacto |-> v],
             capture_identity(CASE_DB, id, v, v, v))

PullStoryFromGeneral ==
    \E id \in CaseIds :
        Call([op |-> "pull_story_from_general", case_id |-> id],
             pull_story_from_general(CASE_DB, id))

AddMoreInfo ==
    \E id \in CaseIds, info \in InfoInputs :
        Call([op |-> "add_more_info", case_id |-> id, info_adicional |-> info],
             add_more_info(CASE_DB, id, info))

\* the wage amount varies on its own, the six other fields together
CaptureRequiredFields ==
    \E id \in CaseIds, monto \in TextInputs, v \in TextInputs :
        Call([op |-> "capture_required_fields", case_id |-> id,
              empleador_nombre |-> v, cargo |-> v, salario_monto |-> monto,
              salario_periodicidad |-> v, fecha_inicio |-> v,
              fecha_despido_ultimo_pago |-> v, pretension |-> v],
             capture_required_fields(CASE_DB, id, v, v, monto, v, v, v, v))

RequestDocuments ==
    \E id \in CaseIds :
        Call([op |-> "request_documents", case_id |-> id],
             request_documents(CASE_DB, id))

MarkDocument ==
    \E id \in CaseIds, m \in MarkInputs :
        Call([op |-> "mark_document", case_id |-> id, doc_name |-> m.doc_name,
              existe |-> m.existe, nota |-> m.nota],
             mark_document(CASE_DB, id, m.doc_name, m.existe, m.nota))

ValidateAndRecheck ==
    \E id \in CaseIds :
        Call([op |-> "validate_and_recheck", case_id |-> id],
             validate_and_recheck(CASE_DB, id))

GenerateExpediente ==
    \E id \in CaseIds :
        Call([op |-> "generate_expediente", case_id |-> id],
             generate_expediente(CASE_DB, id))

HandoffToHuman ==
    \E id \in CaseIds, nota \in NotaInputs :
        Call([op |-> "handoff_to_human", case_id |-> id, nota |-> nota],
             handoff_to_human(CASE_DB, id, nota))

\* the module as imported: an empty store, no call made
Init ==
    /\ CASE_DB = EmptyDict
    /\ prev = EmptyDict
    /\ call = [op |-> "none"]
    /\ result = [status |-> "none"]
    /\ ncalls = 0
    /\ texto = <<>>
    /\ clasificacion = [done |-> FALSE]

Next ==
    \/ CreateCase
    \/ CaptureIdentity
    \/ PullStoryFromGeneral
    \/ AddMoreInfo
    \/ CaptureRequiredFields
    \/ RequestDocuments
    \/ MarkDocument
    \/ ValidateAndRecheck
    \/ GenerateExpediente
    \/ HandoffToHuman

Spec == Init /\ [][Next]_vars

-----------------------------------------------------------------------------
(* The flow the agent is instructed to follow with one case, steps A to G  *)
(* of INSTRUCTION (agent.py:394-441): [create_case,] pull the narrative,   *)
(* capture the identity, [add to the narrative,] capture the required      *)
(* fields, [request the documents and mark them one by one,] validate,     *)
(* generate the expediente, hand off.  The step the flow is at is the tool *)
(* called last.                                                            *)

\* how many documents of the list the operator answers for (step 8)
MaxMarks == 2

\* identifiers the operator gives at step 2: the two example cases, as
\* written in the instruction or in another letter-case, or an unknown one
FlujoIds == {LAB_0001, LAB_0002} \cup CaseIds

\* the identifier the flow goes on with
Caso == Or(call.case_id, LAB_0001)

\* the closing note of step 11
NotaCierre == <<"Listo para revisión humana final">>

\* the flow issues the call c, which gives r
FlujoCall(c, r) ==
    /\ prev' = CASE_DB
    /\ CASE_DB' = r.db
    /\ result' = r.result
    /\ call' = c
    /\ ncalls' = ncalls + 1
    /\ UNCHANGED <<texto, clasificacion>>

\* step 2: the operator has no case and opens one
FlujoCreateCase ==
    /\ call.op = "none"
    /\ \E id \in FlujoIds \cup {None} :
          FlujoCall([op |-> "create_case", case_id |-> id],
                    create_case(CASE_DB, id))

\* step 2: the narrative of the case is pulled
FlujoPullStory ==
    \/ /\ call.op = "none"
       /\ \E id \in FlujoIds :
             FlujoCall([op |-> "pull_story_from_general", case_id |-> id],
                       pull_story_from_general(CASE_DB, id))
    \/ /\ call.op = "create_case"
       /\ FlujoCall([op |-> "pull_story_from_general", case_id |-> Caso],
                    pull_story_from_general(CASE_DB, Caso))

\* step 3
FlujoCaptureIdentity ==
    /\ call.op = "pull_story_from_general"
    /\ \E v \in TextInputs :
          FlujoCall([op |-> "capture_identity", case_id |-> Caso, dui |-> v,
                     nombre |-> v, contacto |-> v],
                    capture_identity(CASE_DB, Caso, v, v, v))

\* step 5, when the person wants to add to the narrative
FlujoAddMoreInfo ==
    /\ call.op = "capture_identity"
    /\ \E info \in InfoInputs :
          FlujoCall([op |-> "add_more_info", case_id |-> Caso,
                     info_adicional |-> info],
                    add_more_info(CASE_DB, Caso, info))

\* step 6
FlujoCaptureRequiredFields ==
    /\ call.op \in {"capture_identity", "add_more_info"}
    /\ \E monto \in TextInputs, v \in TextInputs :
          FlujoCall([op |-> "capture_required_fields", case_id |-> Caso,
                     empleador_nombre |-> v, cargo |-> v, salario_monto |-> monto,
                     salario_periodicidad |-> v, fecha_inicio |-> v,
                     fecha_despido_ultimo_pago |-> v, pretension |-> v],
                    capture_required_fields(CASE_DB, Caso, v, v, monto, v, v, v, v))

\* step 7
FlujoRequestDocuments ==
    /\ call.op = "capture_required_fields"
    /\ FlujoCall([op |-> "request_documents", case_id |-> Caso],
                 request_documents(CASE_DB, Caso))

\* step 8: the documents of the list in their order, answered yes or no
FlujoMarkDocument ==
    \E i \in 1..MaxMarks, existe \in BOOLEAN :
        /\ \/ i = 1 /\ call.op = "request_documents"
           \/ /\ i > 1
              /\ call.op = "mark_document"
              /\ call.doc_name = DOCUMENTOS_BASE[i - 1]
        /\ FlujoCall([op |-> "mark_document", case_id |-> Caso,
                      doc_name |-> DOCUMENTOS_BASE[i], existe |-> existe,
                      nota |-> None],
                     mark_document(CASE_DB, Caso, DOCUMENTOS_BASE[i], existe, None))

\* step 9
FlujoValidateAndRecheck ==
    /\ call.op \in {"capture_required_fields", "request_documents", "mark_document"}
    /\ FlujoCall([op |-> "validate_and_recheck", case_id |-> Caso],
                 validate_and_recheck(CASE_DB, Caso))

\* step 10
FlujoGenerateExpediente ==
    /\ call.op = "validate_and_recheck"
    /\ FlujoCall([op |-> "generate_expediente", case_id |-> Caso],
                 generate_expediente(CASE_DB, Caso))

\* step 11
FlujoHandoffToHuman ==
    /\ call.op = "generate_expediente"
    /\ FlujoCall([op |-> "handoff_to_human", case_id |-> Caso,
                  nota |-> NotaCierre],
                 handoff_to_human(CASE_DB, Caso, NotaCierre))

NextFlujo ==
    \/ FlujoCreateCase
    \/ FlujoPullStory
    \/ FlujoCaptureIdentity
    \/ FlujoAddMoreInfo
    \/ FlujoCaptureRequiredFields
    \/ FlujoRequestDocuments
    \/ FlujoMarkDocument
    \/ FlujoValidateAndRecheck
    \/ FlujoGenerateExpediente
    \/ FlujoHandoffToHuman

SpecFlujo == Init /\ [][NextFlujo]_vars

-----------------------------------------------------------------------------
(* validate_and_recheck on every way a case can have been captured: one    *)
(* case is built with the tools, its narrative pulled or not, its identity *)
(* captured or not and each of the three values empty or not, its required *)
(* fields captured or not and each of the seven values empty or not, its   *)
(* narrative complemented or not; then the case is validated.              *)

\* the store that holds the case id, captured as chosen
Captured(id, pulled, ident, idv, req, reqv, extra, info) ==
    LET db0 == create_case(EmptyDict, id).db
        db1 == IF pulled THEN pull_story_from_general(db0, id).db ELSE db0
        db2 == IF ident
               THEN capture_identity(db1, id, idv.dui, idv.nombre, idv.contacto).db
               ELSE db1
        db3 == IF req
               THEN capture_required_fields(db2, id, reqv.empleador_nombre,
                        reqv.cargo, reqv.salario_monto, reqv.salario_periodicidad,
                        reqv.fecha_inicio, reqv.fecha_despido_ultimo_pago,
                        reqv.pretension).db
               ELSE db2
    IN  IF extra THEN add_more_info(db3, id, info).db ELSE db3

\* the values capture_identity is given
IdentityInputs == [dui : TextInputs, nombre : TextInputs, contacto : TextInputs]

\* the values capture_required_fields is given
RequiredInputs ==
    [ empleador_nombre : TextInputs, cargo : TextInputs, salario_monto : TextInputs,
      salario_periodicidad : TextInputs, fecha_inicio : TextInputs,
      fecha_despido_ultimo_pago : TextInputs, pretension : TextInputs ]

InitValidate ==
    /\ \E id \in {LAB_0001, LAB_0002}, pulled, ident, req, extra \in BOOLEAN,
          idv \in IdentityInputs, reqv \in RequiredInputs, info \in InfoInputs :
          CASE_DB = Captured(id, pulled, ident, idv, req, reqv, extra, info)
    /\ prev = EmptyDict
    /\ call = [op |-> "none"]
    /\ result = [status |-> "none"]
    /\ ncalls = 0
    /\ texto = <<>>
    /\ clasificacion = [done |-> FALSE]

\* the captured case is validated
ValidateCaptured ==
    /\ ncalls = 0
    /\ \E id \in DOMAIN CASE_DB :
          FlujoCall([op |-> "validate_and_recheck", case_id |-> id],
                    validate_and_recheck(CASE_DB, id))

NextValidate == ValidateCaptured

SpecValidate == InitValidate /\ [][NextValidate]_vars

-----------------------------------------------------------------------------
(* The classifier on its own: a narrative is drawn, then classified as     *)
(* validate_and_recheck classifies it (agent.py:305-306).                  *)

\* pieces of narrative: a criminal signal in capitals, the two halves of a
\* criminal signal, a run of whitespace, a labor keyword, a neutral word
Fragments ==
    { <<"E", "X", "T", "O", "R", "S", "I", "Ó", "N">>,
      <<"a", "m", "e", "n", "a", "z", "a">>,
      <<"d", "e", " ", "m", "u", "e", "r", "t", "e">>,
      <<" ", "\n", "\t">>,
      <<"S", "a", "l", "a", "r", "i", "o">>,
      <<"h", "o", "l", "a">> }

\* the concatenation of a sequence of texts
RECURSIVE Concat(_)
Concat(ts) == IF ts = <<>> THEN <<>> ELSE Head(ts) \o Concat(Tail(ts))

\* the narratives made of at most MaxFragments fragments
Textos ==
    { Concat(fs) : fs \in UNION { [1..n -> Fragments] : n \in 0..MaxFragments } }

InitClassifier ==
    /\ CASE_DB = EmptyDict
    /\ prev = EmptyDict
    /\ call = [op |-> "none"]
    /\ result = [status |-> "none"]
    /\ ncalls = 0
    /\ texto \in Textos
    /\ clasificacion = [done |-> FALSE]

Classify ==
    /\ ~clasificacion.done
    /\ clasificacion' = [ done |-> TRUE,
                          is_laboral |-> corresponde_a_laboral(texto),
                          jurisdiccion_probable |-> route_operativa(texto) ]
    /\ UNCHANGED <<CASE_DB, prev, call, result, ncalls, texto>>

NextClassifier == Classify

SpecClassifier == InitClassifier /\ [][NextClassifier]_vars

-----------------------------------------------------------------------------
(* Vocabulary of the properties.                                           *)

\* a tool has been called
Called == call.op # "none"

\* the key of the store the last call addresses
Cid == upper(Or(call.case_id, LAB_0001))

\* the record the last call addressed, before the call and after it
Before == prev[Cid]

After == CASE_DB[Cid]

\* the last call found a record under its key
Existed == Cid \in DOMAIN prev

\* x is an element of the sequence s
InSeq(x, s) == \E i \in 1..Len(s) : s[i] = x

\* the document types of the base list
BaseDocs == {DOCUMENTOS_BASE[i] : i \in 1..Len(DOCUMENTOS_BASE)}

\* the call c made on the store db
Apply(c, db) ==
    CASE c.op = "create_case" -> create_case(db, c.case_id)
      [] c.op = "capture_identity" ->
            capture_identity(db, c.case_id, c.dui, c.nombre, c.contacto)
      [] c.op = "pull_story_from_general" -> pull_story_from_general(db, c.case_id)
      [] c.op = "add_more_info" -> add_more_info(db, c.case_id, c.info_adicional)
      [] c.op = "capture_required_fields" ->
            capture_required_fields(db, c.case_id, c.empleador_nombre, c.cargo,
                                    c.salario_monto, c.salario_periodicidad,
                                    c.fecha_inicio, c.fecha_despido_ultimo_pago,
                                    c.pretension)
      [] c.op = "request_documents" -> request_documents(db, c.case_id)
      [] c.op = "mark_document" ->
            mark_document(db, c.case_id, c.doc_name, c.existe, c.nota)
      [] c.op = "validate_and_recheck" -> validate_and_recheck(db, c.case_id)
      [] c.op = "generate_expediente" -> generate_expediente(db, c.case_id)
      [] c.op = "handoff_to_human" -> handoff_to_human(db, c.case_id, c.nota)

\* the other spellings of an identifier: those that differ from it in letter
\* case only
Spellings(id) == IF id = None THEN {} ELSE {upper(id), lower(id)} \ {id}

-----------------------------------------------------------------------------
(* C1.  Identifiers are case-insensitive: the call that was made would     *)
(* have returned the same dict and left the same store had the identifier  *)
(* been spelled in another letter case, and every key of the store is an   *)
(* upper-cased identifier equal to the case_id of the record under it.     *)

C1_CaseInsensitive ==
    /\ \A k \in DOMAIN CASE_DB : k = upper(k) /\ CASE_DB[k].case_id = k
    /\ Called =>
         \A id \in Spellings(call.case_id) :
             Apply([call EXCEPT !.case_id = id], prev)
                 = [db |-> CASE_DB, result |-> result]

\* a call spelled in lower case has changed a record that existed under the
\* upper-cased key
C1_Witness ==
    /\ Called
    /\ call.case_id # None
    /\ call.case_id # Cid
    /\ Existed
    /\ DOMAIN CASE_DB = DOMAIN prev
    /\ After # Before

-----------------------------------------------------------------------------
(* C2.  create_case is idempotent: called for an identifier that has a     *)
(* record, it returns status ok with the state that record has and leaves  *)
(* the whole store as it was.                                              *)

C2_CreateIdempotent ==
    (Called /\ call.op = "create_case" /\ Existed) =>
        /\ CASE_DB = prev
        /\ result = [status |-> "ok", case_id |-> Cid, state |-> Before.state]

\* create_case on a record that has left RECEIVED and holds captured data
\* and an expediente
C2_Witness ==
    /\ Called
    /\ call.op = "create_case"
    /\ Existed
    /\ Before.state # "RECEIVED"
    /\ Before.expediente # None
    /\ Truthy(Before.data.nombre)

-----------------------------------------------------------------------------
(* C3.  pull_story_from_general for an identifier without a registered     *)
(* narrative returns an error and leaves the store as it was, whether or   *)
(* not the identifier had a record.                                        *)

C3_PullErrorLeavesStore ==
    (Called /\ call.op = "pull_story_from_general"
            /\ Cid \notin DOMAIN HARDCODED_GENERAL_CASES) =>
        /\ result.status = "error"
        /\ CASE_DB = prev

-----------------------------------------------------------------------------
(* C4.  Each of the seven tools that need a record, called with an         *)
(* identifier that has none, returns status "error" with a message,        *)
(* creates no record and leaves the store as it was.                       *)

NeedRecord ==
    { "add_more_info", "capture_required_fields", "request_documents",
      "mark_document", "validate_and_recheck", "generate_expediente",
      "handoff_to_human" }

C4_NotFound ==
    (Called /\ call.op \in NeedRecord /\ ~Existed) =>
        /\ DOMAIN result = {"status", "error_message"}
        /\ result.status = "error"
        /\ result.error_message # ""
        /\ Cid \notin DOMAIN CASE_DB
        /\ CASE_DB = prev

\* hand off for an identifier without a record, while another identifier
\* has one
C4_Witness ==
    /\ Called
    /\ call.op = "handoff_to_human"
    /\ ~Existed
    /\ prev # EmptyDict
    /\ result.status = "error"

-----------------------------------------------------------------------------
(* C5.  As stated: every result, of a success or of a failure, holds a     *)
(* status ("ok" or "error") and the upper-cased case identifier, and every *)
(* successful result holds the resulting state of the record.              *)

C5_Original ==
    Called =>
        /\ "status" \in DOMAIN result
        /\ result.status \in {"ok", "error"}
        /\ "case_id" \in DOMAIN result
        /\ result.case_id = Cid
        /\ result.status = "ok" =>
              "state" \in DOMAIN result /\ result.state = After.state

(* C5, amended.  Every result holds a status ("ok" or "error"); a          *)
(* successful result also holds the upper-cased case identifier and the    *)
(* resulting state of the record; an error result holds an error message   *)
(* and neither the case identifier nor a state.                            *)

C5_ResultShape ==
    Called =>
        /\ "status" \in DOMAIN result
        /\ result.status \in {"ok", "error"}
        /\ result.status = "ok" =>
              /\ {"case_id", "state"} \subseteq DOMAIN result
              /\ result.case_id = Cid
              /\ result.state = After.state
              /\ result.state \in CaseState
        /\ result.status = "error" =>
              DOMAIN result = {"status", "error_message"}

\* a failed validate_and_recheck: its result names no case
C5_Witness ==
    /\ Called
    /\ call.op = "validate_and_recheck"
    /\ result.status = "error"
    /\ "case_id" \notin DOMAIN result

-----------------------------------------------------------------------------
(* C6.  The state machine is permissive.  Called for an identifier that    *)
(* has a record, in whatever state, a tool fails only when it is           *)
(* pull_story_from_general and the identifier has no narrative; and the    *)
(* state after a success is fixed by the tool alone (create_case: the      *)
(* state the record had).  So the state can move backwards.                *)

StateAfter(op, before) ==
    CASE op = "create_case" -> before
      [] op \in { "capture_identity", "pull_story_from_general",
                  "add_more_info", "capture_required_fields" } -> "DETAILS_CAPTURED"
      [] op = "request_documents" -> "DOCS_REQUESTED"
      [] op = "mark_document" -> "DOCS_RECEIVED"
      [] op = "validate_and_recheck" -> "PRE_CLASSIFIED"
      [] op = "generate_expediente" -> "EXPEDIENTE_GENERATED"
      [] op = "handoff_to_human" -> "HANDOFF_TO_HUMAN"

C6_Permissive ==
    (Called /\ Existed) =>
        /\ result.status = "error" =>
              /\ call.op = "pull_story_from_general"
              /\ Cid \notin DOMAIN HARDCODED_GENERAL_CASES
        /\ result.status = "ok" =>
              /\ After.state = StateAfter(call.op, Before.state)
              /\ result.state = After.state

\* a record that was handed off goes back to DETAILS_CAPTURED
C6_Witness ==
    /\ Called
    /\ call.op = "capture_identity"
    /\ Existed
    /\ Before.state = "HANDOFF_TO_HUMAN"
    /\ After.state = "DETAILS_CAPTURED"
    /\ result.status = "ok"

-----------------------------------------------------------------------------
(* C7.  validate_and_recheck on a record none of whose data fields is set  *)
(* returns exactly ten flags, one for each required-field check (the wage  *)
(* amount and the wage period share one), and no criminal-signal flag.     *)

CapturedFields ==
    { "nombre", "dui", "contacto", "empleador_nombre", "cargo", "salario_monto",
      "salario_periodicidad", "fecha_inicio", "fecha_despido_ultimo_pago",
      "relato", "relato_extra", "pretension" }

TenFlags ==
    << "Falta nombre.",
       "Falta DUI.",
       "Falta contacto.",
       "Falta empleador (nombre).",
       "Falta cargo.",
       "Falta salario (monto/periodicidad).",
       "Falta fecha inicio relación.",
       "Falta fecha despido/último pago.",
       "Falta relato base (del agente general).",
       "Falta pretensión." >>

C7_FreshRecordTenFlags ==
    (Called /\ call.op = "validate_and_recheck" /\ Existed
            /\ \A f \in CapturedFields : Before.data[f] = None) =>
        /\ result.status = "ok"
        /\ Len(result.flags) = 10
        /\ result.flags = TenFlags
        /\ After.data.banderas = TenFlags

\* validate_and_recheck right after create_case
C7_Witness ==
    /\ Called
    /\ call.op = "validate_and_recheck"
    /\ Existed
    /\ Before = CaseRecord(Cid)
    /\ Len(result.flags) = 10

-----------------------------------------------------------------------------
(* C8.  The classifier is a three-way decision with criminal priority over *)
(* the whitespace-normalized, lower-cased text: a criminal signal gives    *)
(* "not labor" and the criminal label, also when labor keywords are        *)
(* present; otherwise a labor keyword gives "labor" and the labor label;   *)
(* otherwise "not labor" and the review label.  The verdict is true        *)
(* exactly when the label is the labor label.  A signal written in         *)
(* capitals, or with a run of whitespace where it has a space, counts.     *)

HasPenal == AnyIn(PENAL_SIGNALS, _normalize(texto))

HasLaboral == AnyIn(LABORAL_KEYWORDS, _normalize(texto))

\* "EXTORSIÓN", and "amenaza", whitespace, "de muerte", as they are typed
TypedSignals ==
    { <<"E", "X", "T", "O", "R", "S", "I", "Ó", "N">>,
      <<"a", "m", "e", "n", "a", "z", "a", " ", "\n", "\t",
        "d", "e", " ", "m", "u", "e", "r", "t", "e">> }

C8_Classifier ==
    clasificacion.done =>
        /\ HasPenal =>
              /\ clasificacion.is_laboral = FALSE
              /\ clasificacion.jurisdiccion_probable = <<RUTA_PENAL>>
        /\ (~HasPenal /\ HasLaboral) =>
              /\ clasificacion.is_laboral = TRUE
              /\ clasificacion.jurisdiccion_probable = <<RUTA_LABORAL>>
        /\ (~HasPenal /\ ~HasLaboral) =>
              /\ clasificacion.is_laboral = FALSE
              /\ clasificacion.jurisdiccion_probable = <<RUTA_REVISAR>>
        /\ clasificacion.is_laboral
              <=> (clasificacion.jurisdiccion_probable = <<RUTA_LABORAL>>)
        /\ (\E k \in TypedSignals : Contains(texto, k)) =>
              clasificacion.jurisdiccion_probable = <<RUTA_PENAL>>

\* a narrative with a labor keyword and a criminal signal, the signal split
\* by a line break: it is routed as criminal
C8_Witness ==
    /\ clasificacion.done
    /\ HasLaboral
    /\ Contains(texto, <<"a", "m", "e", "n", "a", "z", "a", " ", "\n", "\t",
                         "d", "e", " ", "m", "u", "e", "r", "t", "e">>)
    /\ clasificacion.jurisdiccion_probable = <<RUTA_PENAL>>
    /\ ~clasificacion.is_laboral

-----------------------------------------------------------------------------
(* C9.  mark_document on a record whose checklist is empty succeeds and    *)
(* leaves a checklist with every document type of the base list, every     *)
(* item unreceived and without note except the marked one, whose received  *)
(* flag is the caller's value and whose note is the caller's note when a   *)
(* non-empty one was given; the state becomes DOCS_RECEIVED.               *)

C9_MarkBeforeRequest ==
    (Called /\ call.op = "mark_document" /\ Existed
            /\ DOMAIN Before.checklist = {}) =>
        /\ result.status = "ok"
        /\ After.state = "DOCS_RECEIVED"
        /\ DOMAIN After.checklist = BaseDocs \cup {call.doc_name}
        /\ \A doc \in DOMAIN After.checklist \ {call.doc_name} :
              After.checklist[doc] = [ doc |-> doc, requerido |-> FALSE,
                                       recibido |-> FALSE, nota |-> None ]
        /\ After.checklist[call.doc_name] =
              [ doc |-> call.doc_name, requerido |-> FALSE,
                recibido |-> call.existe,
                nota |-> IF call.nota \in {None, <<>>} THEN None ELSE call.nota ]

\* a base document marked as received on a record that never had a
\* checklist
C9_Witness ==
    /\ Called
    /\ call.op = "mark_document"
    /\ Existed
    /\ DOMAIN Before.checklist = {}
    /\ call.doc_name \in BaseDocs
    /\ call.existe
    /\ After.checklist[call.doc_name].recibido
    /\ Cardinality(DOMAIN After.checklist) = Len(DOCUMENTOS_BASE)

-----------------------------------------------------------------------------
(* C10.  Flags are replaced, never accumulated.  After a successful        *)
(* validate_and_recheck the stored flag list is the list the call          *)
(* returned, it is what the call would have stored had the record held no  *)
(* flags before, a second validate_and_recheck in a row leaves the store   *)
(* as it is, and no flag remains for a field that is captured.             *)

\* the store before the call, with the flag list of the record emptied
PrevWithoutFlags == Put(prev, Cid, [Before EXCEPT !.data.banderas = <<>>])

\* the fields whose absence a flag reports
FlagFields ==
    [ nombre |-> "Falta nombre.",
      dui |-> "Falta DUI.",
      contacto |-> "Falta contacto.",
      empleador_nombre |-> "Falta empleador (nombre).",
      cargo |-> "Falta cargo.",
      fecha_inicio |-> "Falta fecha inicio relación.",
      fecha_despido_ultimo_pago |-> "Falta fecha despido/último pago.",
      relato |-> "Falta relato base (del agente general).",
      pretension |-> "Falta pretensión." ]

C10_FlagsReplaced ==
    (Called /\ call.op = "validate_and_recheck" /\ result.status = "ok") =>
        /\ After.data.banderas = result.flags
        /\ validate_and_recheck(PrevWithoutFlags, call.case_id).db = CASE_DB
        /\ validate_and_recheck(CASE_DB, call.case_id).db = CASE_DB
        /\ \A f \in DOMAIN FlagFields :
              InSeq(FlagFields[f], After.data.banderas)
                  => After.data[f] \in {None, <<>>}
        /\ InSeq("Falta salario (monto/periodicidad).", After.data.banderas)
              => \/ After.data.salario_monto \in {None, <<>>}
                 \/ After.data.salario_periodicidad \in {None, <<>>}
        /\ \A i, j \in 1..Len(After.data.banderas) :
              i # j => After.data.banderas[i] # After.data.banderas[j]

\* a second validate_and_recheck, after the name was captured: the flag for
\* the name was stored and is gone
C10_Witness ==
    /\ Called
    /\ call.op = "validate_and_recheck"
    /\ result.status = "ok"
    /\ InSeq("Falta nombre.", Before.data.banderas)
    /\ ~InSeq("Falta nombre.", After.data.banderas)
    /\ After.data.banderas # <<>>

-----------------------------------------------------------------------------
(* C11.  generate_expediente is deterministic and repeatable.  The text a  *)
(* successful call returns is the text it stores; it is the text the call  *)
(* returns on a record of the same identifier, data and checklist that is  *)
(* otherwise new (state RECEIVED, no expediente stored); and calling       *)
(* generate_expediente again at once returns the same result and leaves    *)
(* the store as it is.                                                     *)

\* a new record that holds only the data and the checklist of c
SameContents(cid, c) ==
    [CaseRecord(cid) EXCEPT !.data = c.data, !.checklist = c.checklist]

C11_Deterministic ==
    (Called /\ call.op = "generate_expediente" /\ result.status = "ok") =>
        /\ After.expediente = result.expediente
        /\ generate_expediente(Put(prev, Cid, SameContents(Cid, Before)),
                               call.case_id).result = result
        /\ generate_expediente(CASE_DB, call.case_id).result = result
        /\ generate_expediente(CASE_DB, call.case_id).db = CASE_DB

\* a regeneration: the record already stored an expediente, of other
\* contents, when generate_expediente was called
C11_Witness ==
    /\ Called
    /\ call.op = "generate_expediente"
    /\ result.status = "ok"
    /\ Before.expediente # None
    /\ Before.expediente # After.expediente

-----------------------------------------------------------------------------
(* C12.  The flow on the case LAB-0001, from the empty store.  Every step  *)
(* returns status ok; pulling the narrative stores the narrative of the    *)
(* general agent; when name, DUI, contact and all required fields were     *)
(* given non-empty and nothing was added to the narrative, validating      *)
(* sets the labor route and returns no flag; and after the hand-off the    *)
(* record is in HANDOFF_TO_HUMAN.                                          *)

\* the record holds every captured field non-empty and the narrative as
\* pulled
FullyCaptured(c) ==
    /\ \A f \in CapturedFields \ {"relato_extra"} : Truthy(c.data[f])
    /\ c.data.relato = RELATO_LAB_0001
    /\ c.data.relato_extra = None

C12_FlujoCompleto ==
    (Called /\ Cid = LAB_0001) =>
        /\ result.status = "ok"
        /\ DOMAIN CASE_DB = {LAB_0001}
        /\ call.op = "pull_story_from_general" =>
              After.data.relato = RELATO_LAB_0001
        /\ (call.op = "validate_and_recheck" /\ FullyCaptured(Before)) =>
              /\ After.data.jurisdiccion_probable = <<RUTA_LABORAL>>
              /\ result.jurisdiccion_probable = <<RUTA_LABORAL>>
              /\ result.flags = <<>>
              /\ After.data.banderas = <<>>
        /\ call.op = "handoff_to_human" =>
              /\ After.state = "HANDOFF_TO_HUMAN"
              /\ result.state = "HANDOFF_TO_HUMAN"

\* the end of the scenario: the case was created as LAB-0001, is fully
\* captured, has no documents requested, was validated as labor with no
\* flag, has its expediente and is handed off
C12_Witness ==
    /\ Called
    /\ call.op = "handoff_to_human"
    /\ call.case_id = LAB_0001
    /\ ncalls = 7
    /\ result.status = "ok"
    /\ FullyCaptured(After)
    /\ After.checklist = EmptyDict
    /\ After.data.banderas = <<>>
    /\ After.data.jurisdiccion_probable = <<RUTA_LABORAL>>
    /\ After.expediente # None
    /\ After.state = "HANDOFF_TO_HUMAN"

-----------------------------------------------------------------------------
(* C13.  create_case and capture_identity never fail.  Whatever the store  *)
(* holds they return status ok and the record is in the store afterwards.  *)
(* When there was no record, create_case stores a new one, in RECEIVED     *)
(* with no data, and capture_identity stores one in DETAILS_CAPTURED that  *)
(* holds the given name, DUI and contact and nothing else.  create_case    *)
(* with no identifier, or an empty one, works on "LAB-0001".               *)

C13_NeverFail ==
    (Called /\ call.op \in {"create_case", "capture_identity"}) =>
        /\ result.status = "ok"
        /\ result.case_id = Cid
        /\ DOMAIN CASE_DB = DOMAIN prev \cup {Cid}
        /\ result.state = After.state
        /\ (call.op = "create_case" /\ ~Existed) =>
              /\ After.state = "RECEIVED"
              /\ After.data = CaseData
              /\ After = CaseRecord(Cid)
        /\ call.op = "capture_identity" =>
              /\ After.state = "DETAILS_CAPTURED"
              /\ After.data.nombre = call.nombre
              /\ After.data.dui = call.dui
              /\ After.data.contacto = call.contacto
              /\ ~Existed =>
                    After = [CaseRecord(Cid) EXCEPT
                                !.state = "DETAILS_CAPTURED",
                                !.data.nombre = call.nombre,
                                !.data.dui = call.dui,
                                !.data.contacto = call.contacto]
        /\ (call.op = "create_case" /\ call.case_id = None) =>
              /\ result.case_id = LAB_0001
              /\ LAB_0001 \in DOMAIN CASE_DB
              /\ create_case(prev, <<>>) = create_case(prev, None)
              /\ create_case(prev, LAB_0001).db = CASE_DB

\* capture_identity with values, for an identifier that has no record, in
\* a store that holds another record
C13_Witness ==
    /\ Called
    /\ call.op = "capture_identity"
    /\ ~Existed
    /\ prev # EmptyDict
    /\ Truthy(call.nombre)
    /\ After.data.nombre = call.nombre
    /\ result.status = "ok"

-----------------------------------------------------------------------------
(* C14.  request_documents on an existing record resets the checklist.     *)
(* Whatever the checklist held, the call returns ok and afterwards the     *)
(* checklist holds exactly the documents of DOCUMENTOS_BASE, each not      *)
(* required, not received and without note, the result lists them as not   *)
(* received, and the state is DOCS_REQUESTED.                              *)

C14_RequestResets ==
    (Called /\ call.op = "request_documents" /\ Existed) =>
        /\ result.status = "ok"
        /\ DOMAIN After.checklist = BaseDocs
        /\ \A doc \in BaseDocs :
              After.checklist[doc] =
                  [doc |-> doc, requerido |-> FALSE, recibido |-> FALSE, nota |-> None]
        /\ Len(result.documentos_base) = Len(DOCUMENTOS_BASE)
        /\ \A i \in 1..Len(DOCUMENTOS_BASE) :
              result.documentos_base[i] =
                  [doc |-> DOCUMENTOS_BASE[i], recibido |-> FALSE]
        /\ After.state = "DOCS_REQUESTED"
        /\ result.state = "DOCS_REQUESTED"

\* the checklist held a document that is not of the base list, received
\* and with a note, when request_documents was called
C14_Witness ==
    /\ Called
    /\ call.op = "request_documents"
    /\ Existed
    /\ \E doc \in DOMAIN Before.checklist \ BaseDocs :
          /\ Before.checklist[doc].recibido
          /\ Truthy(Before.checklist[doc].nota)
    /\ DOMAIN After.checklist = BaseDocs

-----------------------------------------------------------------------------
(* C15.  Missing-field validation.  For every combination of captured and  *)
(* missing fields (a field left empty is missing), validate_and_recheck    *)
(* returns the flag of each of the ten checks whose field is missing and   *)
(* of no other; the wage flag is there exactly when the wage amount or the *)
(* wage period is missing; the flags come in the order of the checks, the  *)
(* flag of criminal signals after them all; and that flag is there exactly *)
(* when the call set the criminal route.                                   *)

PenalFlag == "Señales de posible materia penal (solo derivación sugerida)."

\* every flag, in the order of the checks
AllFlags == Append(TenFlags, PenalFlag)

\* the place of the flag x among all flags
Pos(x) == CHOOSE i \in 1..Len(AllFlags) : AllFlags[i] = x

\* for each of the ten checks, whether the data d fails it
Missing(d) ==
    LET no(x) == x = None \/ x = <<>>
    IN  << no(d.nombre), no(d.dui), no(d.contacto), no(d.empleador_nombre),
           no(d.cargo), no(d.salario_monto) \/ no(d.salario_periodicidad),
           no(d.fecha_inicio), no(d.fecha_despido_ultimo_pago), no(d.relato),
           no(d.pretension) >>

C15_MissingFields ==
    (Called /\ call.op = "validate_and_recheck" /\ result.status = "ok") =>
        LET flags == result.flags
        IN  /\ \A j \in 1..Len(flags) : InSeq(flags[j], AllFlags)
            /\ \A i \in 1..Len(TenFlags) :
                  InSeq(TenFlags[i], flags) <=> Missing(Before.data)[i]
            /\ \A j, k \in 1..Len(flags) :
                  j < k => Pos(flags[j]) < Pos(flags[k])
            /\ InSeq(PenalFlag, flags) <=>
                  After.data.jurisdiccion_probable = <<RUTA_PENAL>>
            /\ After.data.banderas = flags

\* a validation with the wage period given and the wage amount not, some
\* other field missing, a later one captured, and a criminal signal in
\* the narrative
C15_Witness ==
    /\ Called
    /\ call.op = "validate_and_recheck"
    /\ result.status = "ok"
    /\ Truthy(Before.data.salario_periodicidad)
    /\ ~Truthy(Before.data.salario_monto)
    /\ Before.data.cargo = <<>>
    /\ Before.data.nombre = None
    /\ Truthy(Before.data.pretension)
    /\ Truthy(Before.data.relato)
    /\ result.flags = << "Falta nombre.", "Falta DUI.", "Falta contacto.",
                         "Falta cargo.", "Falta salario (monto/periodicidad).",
                         PenalFlag >>

-----------------------------------------------------------------------------
(* C16.  VALIDATED is only transient.  Between two calls no record of the  *)
(* store is in state VALIDATED, and no call returns VALIDATED as the state *)
(* of the record: validate_and_recheck leaves PRE_CLASSIFIED.              *)

C16_ValidatedTransient ==
    /\ \A cid \in DOMAIN CASE_DB :
          /\ CASE_DB[cid].state \in CaseState
          /\ CASE_DB[cid].state # "VALIDATED"
    /\ (Called /\ result.status = "ok" /\ "state" \in DOMAIN result) =>
          result.state # "VALIDATED"
    /\ (Called /\ call.op = "validate_and_recheck" /\ result.status = "ok") =>
          After.state = "PRE_CLASSIFIED"

\* a record that was validated and then worked on again, next to another
\* record
C16_Witness ==
    /\ Called
    /\ call.op # "validate_and_recheck"
    /\ result.status = "ok"
    /\ Existed
    /\ Before.state = "PRE_CLASSIFIED"
    /\ DOMAIN CASE_DB # {Cid}

-----------------------------------------------------------------------------
(* C17.  generate_expediente recomputes nothing.  A successful call        *)
(* changes the stored expediente and the state of the record and nothing   *)
(* else of it.  The expediente shows the route and the flags the record    *)
(* stores, not those its data would give now; a record that stores no      *)
(* route (it was never validated) stores no flag either, and its           *)
(* expediente shows the route as N/D and the line "- (Sin banderas)",      *)
(* whatever fields are missing.                                            *)

\* the line of the expediente that shows the route r
RouteLine(r) == <<"\n", "- Ruta/Jurisdicción probable: ">> \o r \o <<"\n">>

\* the line of the expediente that stands for an empty list of flags
SinBanderas == <<"Banderas / faltantes:", "\n", "- (Sin banderas)", "\n">>

C17_GenerateFrame ==
    (Called /\ call.op = "generate_expediente" /\ result.status = "ok") =>
        LET d == Before.data
            e == After.expediente
        IN  /\ After = [Before EXCEPT !.expediente = result.expediente,
                                      !.state = "EXPEDIENTE_GENERATED"]
            /\ After.data = d
            /\ After.checklist = Before.checklist
            /\ Contains(e, RouteLine(Or(d.jurisdiccion_probable, <<"N/D">>)))
            /\ \A i \in 1..Len(AllFlags) :
                  Contains(e, <<"\n", "- ", AllFlags[i], "\n">>)
                      <=> InSeq(AllFlags[i], d.banderas)
            /\ Contains(e, SinBanderas) <=> d.banderas = <<>>
            /\ d.jurisdiccion_probable = None =>
                  /\ d.banderas = <<>>
                  /\ Contains(e, RouteLine(<<"N/D">>))
                  /\ Contains(e, SinBanderas)

\* an expediente generated for a record with identity captured and the
\* rest missing, never validated
C17_Witness ==
    /\ Called
    /\ call.op = "generate_expediente"
    /\ result.status = "ok"
    /\ Before.data.jurisdiccion_probable = None
    /\ Truthy(Before.data.nombre)
    /\ Before.data.relato = None
    /\ Flags(Before.data) # <<>>
    /\ Contains(After.expediente, SinBanderas)

-----------------------------------------------------------------------------
(* C18.  The checklist of every record is empty or holds every document of *)
(* DOCUMENTOS_BASE; every item is stored under its own document name and   *)
(* is not required; and a checklist that was empty, or not there, before a *)
(* call is not empty after it only when the call was a successful          *)
(* request_documents or mark_document on that record.                      *)

\* the checklist of the record stored under cid in db, empty when there is
\* no such record
ChecklistOf(db, cid) == IF cid \in DOMAIN db THEN db[cid].checklist ELSE EmptyDict

C18_Checklist ==
    \A cid \in DOMAIN CASE_DB :
        LET chk == CASE_DB[cid].checklist
        IN  /\ DOMAIN chk = {} \/ BaseDocs \subseteq DOMAIN chk
            /\ \A doc \in DOMAIN chk :
                  /\ chk[doc].doc = doc
                  /\ chk[doc].requerido = FALSE
            /\ (ChecklistOf(prev, cid) = EmptyDict /\ chk # EmptyDict) =>
                  /\ Called
                  /\ call.op \in {"request_documents", "mark_document"}
                  /\ result.status = "ok"
                  /\ cid = Cid

\* a checklist with a document that is not of the base list, received, on
\* a record that another tool then worked on
C18_Witness ==
    /\ Called
    /\ call.op \notin {"request_documents", "mark_document"}
    /\ result.status = "ok"
    /\ \E doc \in DOMAIN After.checklist \ BaseDocs :
          After.checklist[doc].recibido
    /\ BaseDocs \subseteq DOMAIN After.checklist

-----------------------------------------------------------------------------
(* C19.  A record in RECEIVED is as it was constructed: no data field is   *)
(* set, it has no flag, no route, an empty checklist and no expediente.    *)
(* A record that is not in RECEIVED before a call is not in RECEIVED after *)
(* it.                                                                     *)

C19_ReceivedPristine ==
    /\ \A cid \in DOMAIN CASE_DB :
          CASE_DB[cid].state = "RECEIVED" =>
              /\ \A f \in CapturedFields : CASE_DB[cid].data[f] = None
              /\ CASE_DB[cid].data.banderas = <<>>
              /\ CASE_DB[cid].data.jurisdiccion_probable = None
              /\ CASE_DB[cid].checklist = EmptyDict
              /\ CASE_DB[cid].expediente = None
    /\ \A cid \in DOMAIN prev :
          prev[cid].state # "RECEIVED" => CASE_DB[cid].state # "RECEIVED"

\* a call on a record in RECEIVED that leaves it in RECEIVED, next to a
\* record that has left RECEIVED
C19_Witness ==
    /\ Called
    /\ Existed
    /\ Before.state = "RECEIVED"
    /\ After.state = "RECEIVED"
    /\ \E cid \in DOMAIN CASE_DB : CASE_DB[cid].state # "RECEIVED"

-----------------------------------------------------------------------------
(* C20.  Cases are isolated and never deleted.  A call with identifier A   *)
(* leaves every record but the one under upper(A) as it was, adds no       *)
(* record under another key, and removes none.                             *)

C20_Isolation ==
    Called =>
        /\ DOMAIN prev \subseteq DOMAIN CASE_DB
        /\ DOMAIN CASE_DB \subseteq DOMAIN prev \cup {Cid}
        /\ \A cid \in DOMAIN prev \ {Cid} : CASE_DB[cid] = prev[cid]

\* a call that changed one of two records
C20_Witness ==
    /\ Called
    /\ Existed
    /\ After # Before
    /\ \E cid \in DOMAIN prev \ {Cid} :
          /\ prev[cid].state # "RECEIVED"
          /\ CASE_DB[cid] = prev[cid]

====
